---------------------------- MODULE Spec2Model ----------------------------
(***************************************************************************)
(* A model of the Telegram bot of this repository, in its two variants:    *)
(*   "full"   : src/code/render_start.py (AI chat, stock quotes)           *)
(*   "simple" : src/render_start.py      (static replies only)             *)
(* The chat library (python-telegram-bot, Application built with its       *)
(* defaults) takes updates from its queue one at a time, awaits the        *)
(* handler that main() registered for the update, and hands an exception   *)
(* a handler raises to the registered error handler.                       *)
(*                                                                         *)
(* Python values are modelled by tagged records.  A Python str is          *)
(* [t |-> "str", fmt, args]: the text of a literal or of an f-string       *)
(* template, and the strings substituted into it, in order.  The source's  *)
(* texts are Chinese; the model names each by an ASCII label.              *)
(***************************************************************************)
EXTENDS Integers, Sequences, FiniteSets, TLC

(***************************************************************************)
(* Bounds of the model.                                                    *)
(***************************************************************************)
MaxUpdates == 2

(***************************************************************************)
(* JSON values, as response.json() returns them.                           *)
(***************************************************************************)
JNum(n) == [t |-> "num", n |-> n]
JStr(s) == [t |-> "str", s |-> s]
JNull == [t |-> "null"]
JObj(f) == [t |-> "obj", f |-> f]
JList(l) == [t |-> "list", l |-> l]
EmptyDict == JObj([k \in {} |-> JNull])

(***************************************************************************)
(* Python str and None.                                                    *)
(***************************************************************************)
PyStr(fmt, args) == [t |-> "str", fmt |-> fmt, args |-> args]
Lit(s) == PyStr("{}", <<s>>)
PyNone == [t |-> "none", fmt |-> "", args |-> <<>>]
PyOther(tag) == [t |-> tag, fmt |-> "", args |-> <<>>]

\* The Python value a JSON value is once decoded.
PyOf(v) ==
    CASE v.t = "str" -> Lit(v.s)
      [] v.t = "null" -> PyNone
      [] OTHER -> PyOther(v.t)

\* str(v), as an f-string renders a decoded JSON value.
PyDisplay(v) ==
    CASE v.t = "str" -> v.s
      [] v.t = "num" -> ToString(v.n)
      [] v.t = "null" -> "None"
      [] OTHER -> "<" \o v.t \o ">"

(***************************************************************************)
(* An evaluation either returns a value or raises an exception.            *)
(***************************************************************************)
Ret(v) == [raised |-> FALSE, v |-> v, exc |-> ""]
Raise(msg) == [raised |-> TRUE, v |-> JNull, exc |-> msg]

\* d.get(k, default)
PyGet(d, k, default) ==
    IF d.t = "obj"
    THEN Ret(IF k \in DOMAIN d.f THEN d.f[k] ELSE default)
    ELSE Raise("object has no attribute 'get'")

\* x[0]
PyIndex0(x) ==
    CASE x.t = "list" -> IF Len(x.l) > 0 THEN Ret(x.l[1])
                         ELSE Raise("list index out of range")
      [] x.t = "obj" -> IF "0" \in DOMAIN x.f THEN Ret(x.f["0"]) ELSE Raise("0")
      [] OTHER -> Raise("object is not subscriptable")

\* a - b
PySub(a, b) ==
    IF a.t = "num" /\ b.t = "num" THEN Ret(JNum(a.n - b.n))
    ELSE Raise("unsupported operand type(s) for -")

(***************************************************************************)
(* What the HTTP client gives for one request: an exception, or a          *)
(* response with a status and a body; the body is a JSON value, or         *)
(* BadJson when response.json() cannot parse it.                           *)
(***************************************************************************)
BadJson == [t |-> "badjson"]
Exc(msg) == [kind |-> "exc", status |-> 0, body |-> JNull, msg |-> msg]
Resp(status, body) == [kind |-> "resp", status |-> status, body |-> body, msg |-> ""]
NoOutcome == [kind |-> "none", status |-> 0, body |-> JNull, msg |-> ""]

\* response.json()
ResponseJson(body) ==
    IF body = BadJson THEN Raise("Expecting value: line 1 column 1 (char 0)")
    ELSE Ret(body)


(***************************************************************************)
(* The completion caller, call_nebula_api.                                 *)
(***************************************************************************)
\* "Nebula API Key not set, AI chat unavailable ... set NEBULA_API_KEY"
ADVISORY == Lit("advisory: NEBULA_API_KEY is not set")
\* The default of .get("content", ...): "cannot get a response"
NO_CONTENT == "no content"

\* data.get("choices", [{}])[0].get("message", {}).get("content", default)
ExtractContent(data) ==
    LET choices == PyGet(data, "choices", JList(<<EmptyDict>>))
        first == IF choices.raised THEN choices ELSE PyIndex0(choices.v)
        message == IF first.raised THEN first
                   ELSE PyGet(first.v, "message", EmptyDict)
    IN  IF message.raised THEN message
        ELSE PyGet(message.v, "content", JStr(NO_CONTENT))

\* The try block of call_nebula_api, given what the POST came to.
NebulaTry(outcome) ==
    IF outcome.kind = "exc" THEN Raise(outcome.msg)
    ELSE IF outcome.status = 200
         THEN LET data == ResponseJson(outcome.body)
                  content == IF data.raised THEN data ELSE ExtractContent(data.v)
              IN  IF content.raised THEN content ELSE Ret(PyOf(content.v))
         ELSE Ret(PyStr("API call failed (HTTP {})", <<ToString(outcome.status)>>))

\* What call_nebula_api returns once the POST has come to `outcome`.
NebulaReturn(outcome) ==
    LET r == NebulaTry(outcome)
    IN  IF r.raised THEN PyStr("error occurred: {}", <<r.exc>>) ELSE r.v

(***************************************************************************)
(* The quote caller, get_stock_price.                                      *)
(***************************************************************************)
NA == JStr("N/A")
\* datetime.now().strftime(...): the wall clock at formatting
NOW == "<now>"

Abs(n) == IF n < 0 THEN -n ELSE n

\* format(num / den, "+.2f") for den > 0: the sign, then the magnitude
\* rounded to hundredths (to nearest, a tie to even).
SignedFixed2(num, den) ==
    LET a == Abs(num) * 100
        q == a \div den
        r == a % den
        h == IF 2 * r > den \/ (2 * r = den /\ q % 2 = 1) THEN q + 1 ELSE q
        frac == h % 100
    IN  (IF num < 0 THEN "-" ELSE "+") \o ToString(h \div 100) \o "."
        \o (IF frac < 10 THEN "0" ELSE "") \o ToString(frac)

\* change = price - prev_close if price != "N/A" and prev_close != "N/A" else 0
Change(price, prev_close) ==
    IF price # NA /\ prev_close # NA THEN PySub(price, prev_close) ELSE Ret(JNum(0))

\* ChangePercent with the zero test left out of its condition.
ChangePercent_NoZeroCheck(change, prev_close) ==
    IF prev_close # NA
    THEN IF prev_close.t # "num" THEN Raise("unsupported operand type(s) for /")
         ELSE IF prev_close.n = 0 THEN Raise("division by zero")
         ELSE IF prev_close.n < 0
              THEN Ret([num |-> -(change * 100), den |-> -prev_close.n])
              ELSE Ret([num |-> change * 100, den |-> prev_close.n])
    ELSE Ret([num |-> 0, den |-> 1])

\* change_percent = (change / prev_close * 100)
\*                  if prev_close != "N/A" and prev_close != 0 else 0
\* kept as the fraction num/den, den > 0; the division raises as Python's does.
ChangePercent(change, prev_close) ==
    IF prev_close # NA /\ prev_close # JNum(0)
    THEN IF prev_close.t # "num" THEN Raise("unsupported operand type(s) for /")
         ELSE IF prev_close.n = 0 THEN Raise("division by zero")
         ELSE IF prev_close.n < 0
              THEN Ret([num |-> -(change * 100), den |-> -prev_close.n])
              ELSE Ret([num |-> change * 100, den |-> prev_close.n])
    ELSE Ret([num |-> 0, den |-> 1])

ChangeEmoji(change) ==
    IF change < 0 THEN "red" ELSE IF change > 0 THEN "green" ELSE "white"

\* The text block get_stock_price renders.
QuoteBlock(stock_code, meta, price, prev_close, change, pct) ==
    LET symbol == PyGet(meta, "symbol", JStr(stock_code)).v
        currency == PyGet(meta, "currency", JStr("TWD")).v
    IN  PyStr("quote {} price {} {} previous close {} {} {} change {} ({}%) at {}",
              << PyDisplay(symbol), PyDisplay(price), PyDisplay(currency),
                 PyDisplay(prev_close), PyDisplay(currency), ChangeEmoji(change),
                 SignedFixed2(change, 1), SignedFixed2(pct.num, pct.den), NOW >>)

\* The status-200 branch of get_stock_price, from the decoded body on.
QuoteFromData(stock_code, data) ==
    LET chart == PyGet(data, "chart", EmptyDict)
        results == IF chart.raised THEN chart
                   ELSE PyGet(chart.v, "result", JList(<<EmptyDict>>))
        first == IF results.raised THEN results ELSE PyIndex0(results.v)
        meta == IF first.raised THEN first ELSE PyGet(first.v, "meta", EmptyDict)
        price == IF meta.raised THEN meta
                 ELSE PyGet(meta.v, "regularMarketPrice", NA)
        prev == IF meta.raised THEN meta ELSE PyGet(meta.v, "previousClose", NA)
        change == IF price.raised THEN price ELSE Change(price.v, prev.v)
        pct == IF change.raised THEN change ELSE ChangePercent(change.v.n, prev.v)
    IN  IF pct.raised THEN pct
        ELSE Ret(QuoteBlock(stock_code, meta.v, price.v, prev.v, change.v.n, pct.v))

\* The try block of get_stock_price, given what the GET came to.
QuoteTry(stock_code, outcome) ==
    IF outcome.kind = "exc" THEN Raise(outcome.msg)
    ELSE IF outcome.status = 200
         THEN LET data == ResponseJson(outcome.body)
              IN  IF data.raised THEN data ELSE QuoteFromData(stock_code, data.v)
         ELSE Ret(PyStr("cannot get the quote of {} (HTTP {})",
                        <<stock_code, ToString(outcome.status)>>))

\* What get_stock_price returns once the GET has come to `outcome`.
QuoteReturn(stock_code, outcome) ==
    LET r == QuoteTry(stock_code, outcome)
    IN  IF r.raised THEN PyStr("query failed: {}", <<r.exc>>) ELSE r.v


(***************************************************************************)
(* Updates.  A message text is its whitespace-delimited tokens; a token is *)
(* a word with or without the leading "/" that makes it a bot command.     *)
(***************************************************************************)
Cmd(w) == [slash |-> TRUE, word |-> w]
Word(w) == [slash |-> FALSE, word |-> w]

Texts ==
    { <<Cmd("start")>>, <<Cmd("help")>>, <<Cmd("ping")>>, <<Cmd("portfolio")>>,
      <<Cmd("report")>>, <<Cmd("stock")>>,
      <<Cmd("STOCK"), Word("aapl"), Word("2330.tw")>>,
      <<Cmd("unknown")>>, <<Word("hello")>>, <<Word("about"), Cmd("stock")>> }

Senders == {"1001", "2002"}
Updates == [sender : Senders, text : Texts]
NoUpdate == [sender |-> "", text |-> <<>>]

\* str.lower() and str.upper() on the words of Texts
Lower(w) == CASE w = "STOCK" -> "stock" [] OTHER -> w
Upper(w) ==
    CASE w = "2330.tw" -> "2330.TW"
      [] w = "aapl" -> "AAPL"
      [] OTHER -> w

TokenStr(tok) == (IF tok.slash THEN "/" ELSE "") \o tok.word

\* message.text
RECURSIVE TextStr(_)
TextStr(text) ==
    IF Len(text) = 0 THEN ""
    ELSE IF Len(text) = 1 THEN TokenStr(text[1])
    ELSE TokenStr(text[1]) \o " " \o TextStr(Tail(text))

\* context.args: message.text.split()[1:]
Args(text) == [i \in 1..(Len(text) - 1) |-> TokenStr(text[i + 1])]

(***************************************************************************)
(* main(): the handlers registered, in order.  A CommandHandler takes a    *)
(* message whose first token is "/" and its command, case ignored; the     *)
(* MessageHandler takes filters.TEXT & ~filters.COMMAND, a text that does  *)
(* not start with a command.  The first handler that takes the update gets *)
(* it; an update no handler takes is dropped.                              *)
(***************************************************************************)
Commands(v) ==
    IF v = "full"
    THEN <<"start", "help", "ping", "stock", "portfolio", "report">>
    ELSE <<"start", "help", "ping", "portfolio", "report">>

IsCommand(text) == Len(text) > 0 /\ text[1].slash

\* Route with the MessageHandler registered on filters.TEXT alone.
Route_TextFilterOnly(v, text) ==
    LET hits == {i \in 1..Len(Commands(v)) :
                    IsCommand(text) /\ Lower(text[1].word) = Commands(v)[i]}
    IN  IF hits # {}
        THEN Commands(v)[CHOOSE i \in hits : \A j \in hits : i <= j] \o "_command"
        ELSE IF Len(text) > 0 THEN "handle_message"
        ELSE "none"

Route(v, text) ==
    LET hits == {i \in 1..Len(Commands(v)) :
                    IsCommand(text) /\ Lower(text[1].word) = Commands(v)[i]}
    IN  IF hits # {}
        THEN Commands(v)[CHOOSE i \in hits : \A j \in hits : i <= j] \o "_command"
        ELSE IF Len(text) > 0 /\ ~IsCommand(text) THEN "handle_message"
        ELSE "none"


(***************************************************************************)
(* The fixed texts of the two variants.                                    *)
(***************************************************************************)
\* "sorry, you have no permission to use this bot" (the two variants word
\* and mark it differently)
DENIAL(v) ==
    IF v = "full" THEN Lit("denied: sorry, you have no permission to use this bot")
    ELSE Lit("denied: you have no permission to use this bot")

\* The reply of a command that only sends a text.
StaticText(v, h, key) ==
    CASE h = "start_command" -> Lit(v \o ": welcome_message")
      [] h = "help_command" -> Lit(v \o ": help_text")
      [] h = "ping_command" ->
            IF v = "full"
            THEN PyStr("bot status: running, time {}, Nebula API {}",
                       <<NOW, IF key # "" THEN "ok" ELSE "not set">>)
            ELSE Lit("simple: bot is running")
      [] h = "portfolio_command" -> Lit(v \o ": portfolio")
      [] h = "report_command" -> Lit(v \o ": report")

USAGE == Lit("usage: please give a stock code, /stock <code>")
Searching(stock_code) == PyStr("searching the quote of {} ...", <<stock_code>>)
THINKING == Lit("thinking ...")
Echo(user_message) ==
    PyStr("received your message: {}, this feature is in development", <<user_message>>)
Apology(err) == PyStr("error occurred: {}, please try again later or use /help", <<err>>)

(***************************************************************************)
(* State.                                                                  *)
(***************************************************************************)
VARIABLES
    variant,         \* which of the two files runs
    CHAT_ID,         \* TELEGRAM_CHAT_ID, "" when not set
    NEBULA_API_KEY,  \* NEBULA_API_KEY, "" when not set
    update_queue,    \* the updates the transport delivered, not yet handled
    delivered,       \* how many updates the transport delivered
    cur,             \* the update being handled, or handled last
    handler,         \* the handler main() registered that took it, or "none"
    pc,              \* where its handling stands
    body_ran,        \* its handler got past the authorization check
    outbox,          \* the reply_text / edit_text calls made for it, in order
    calls,           \* the requests sent to the two endpoints for it, in order
    status_msg,      \* the handle reply_text returned for the provisional reply
    outcome,         \* what the request came to
    result,          \* what the caller returned
    error,           \* the exception the handler raised, "" if none
    logged           \* logger.error calls of error_handler for it

config == <<variant, CHAT_ID, NEBULA_API_KEY>>
vars == <<variant, CHAT_ID, NEBULA_API_KEY, update_queue, delivered,
          cur, handler, pc, body_ran, outbox, calls, status_msg, outcome, result,
          error, logged>>

NoHandle == <<0, 0>>
NoResult == PyOther("unset")

\* The handle the transport gives the next message sent for this update.
NextHandle == <<delivered - Len(update_queue), Len(outbox) + 1>>

\* The module level of the two files: the full variant exits when
\* TELEGRAM_CHAT_ID is not set, the simple one runs without it.
Init ==
    /\ variant \in {"full", "simple"}
    /\ CHAT_ID \in IF variant = "full" THEN {"1001"} ELSE {"1001", ""}
    /\ NEBULA_API_KEY \in IF variant = "full" THEN {"", "secret"} ELSE {""}
    /\ update_queue = <<>>
    /\ delivered = 0
    /\ cur = NoUpdate
    /\ handler = "none"
    /\ pc = "idle"
    /\ body_ran = FALSE
    /\ outbox = <<>>
    /\ calls = <<>>
    /\ status_msg = NoHandle
    /\ outcome = NoOutcome
    /\ result = NoResult
    /\ error = ""
    /\ logged = 0

(***************************************************************************)
(* The transport.                                                          *)
(***************************************************************************)
\* The long poll delivers one more update into the application's queue.
Deliver ==
    /\ delivered < MaxUpdates
    /\ \E u \in Updates : update_queue' = Append(update_queue, u)
    /\ delivered' = delivered + 1
    /\ UNCHANGED <<config, cur, handler, pc, body_ran, outbox, calls,
                   status_msg, outcome, result, error, logged>>

\* The application takes the next update once the handling of the one before
\* has ended, and gives it to the handler main() registered for it.
CanDispatch == pc \in {"idle", "done"} /\ Len(update_queue) > 0

Dispatch ==
    /\ CanDispatch
    /\ cur' = Head(update_queue)
    /\ update_queue' = Tail(update_queue)
    /\ handler' = Route(variant, Head(update_queue).text)
    /\ pc' = IF Route(variant, Head(update_queue).text) = "none" THEN "done" ELSE "run"
    /\ body_ran' = FALSE
    /\ outbox' = <<>>
    /\ calls' = <<>>
    /\ status_msg' = NoHandle
    /\ outcome' = NoOutcome
    /\ result' = NoResult
    /\ error' = ""
    /\ logged' = 0
    /\ UNCHANGED <<config, delivered>>

\* await update.message.reply_text(text): the message is sent and the handler
\* goes on to next_pc, or the call raises.
ReplyText(text, next_pc) ==
    \E ok \in BOOLEAN :
        /\ outbox' = Append(outbox, [op |-> "reply_text", by |-> handler,
                                     handle |-> NextHandle, text |-> text, ok |-> ok])
        /\ pc' = IF ok THEN next_pc ELSE "error"
        /\ error' = IF ok THEN error ELSE "NetworkError"
        /\ status_msg' = IF ok /\ next_pc = "call" THEN NextHandle ELSE status_msg

(***************************************************************************)
(* The handlers.                                                           *)
(***************************************************************************)
\* The authorization check at the head of a handler.  Every handler of the
\* full variant has it; in the simple variant only handle_message has it, and
\* only when TELEGRAM_CHAT_ID is set.
DeniedFull(sender) == sender # CHAT_ID
DeniedSimple(h, sender) == h = "handle_message" /\ CHAT_ID # "" /\ sender # CHAT_ID
Denied(v, h, sender) == IF v = "full" THEN DeniedFull(sender) ELSE DeniedSimple(h, sender)

\* start, help, ping, portfolio, report: the authorization check, then one fixed text.
StaticCommand(h) ==
    /\ pc = "run"
    /\ handler = h
    /\ IF Denied(variant, h, cur.sender)
       THEN ReplyText(DENIAL(variant), "done") /\ UNCHANGED body_ran
       ELSE body_ran' = TRUE
            /\ ReplyText(StaticText(variant, h, NEBULA_API_KEY), "done")
    /\ UNCHANGED <<config, update_queue, delivered, cur, handler, calls,
                   outcome, result, logged>>

start_command == StaticCommand("start_command")
help_command == StaticCommand("help_command")
ping_command == StaticCommand("ping_command")
portfolio_command == StaticCommand("portfolio_command")
report_command == StaticCommand("report_command")

\* StockCode taking the last argument instead of the first.
StockCode_LastArg(text) == Upper(Args(text)[Len(Args(text))])

\* stock_code = context.args[0].upper()
StockCode(text) == Upper(Args(text)[1])

\* stock_command up to its first await: the authorization check, the usage text when there is
\* no argument, else the provisional reply.
stock_command ==
    /\ pc = "run"
    /\ handler = "stock_command"
    /\ IF Denied(variant, handler, cur.sender)
       THEN ReplyText(DENIAL(variant), "done") /\ UNCHANGED body_ran
       ELSE /\ body_ran' = TRUE
            /\ IF Len(Args(cur.text)) = 0
               THEN ReplyText(USAGE, "done")
               ELSE ReplyText(Searching(StockCode(cur.text)), "call")
    /\ UNCHANGED <<config, update_queue, delivered, cur, handler, calls,
                   outcome, result, logged>>

\* handle_message up to its first await.  The full variant sends the
\* provisional reply; the simple one answers with a fixed echo.
handle_message ==
    /\ pc = "run"
    /\ handler = "handle_message"
    /\ IF Denied(variant, handler, cur.sender)
       THEN ReplyText(DENIAL(variant), "done") /\ UNCHANGED body_ran
       ELSE /\ body_ran' = TRUE
            /\ IF variant = "full"
               THEN ReplyText(THINKING, "call")
               ELSE ReplyText(Echo(TextStr(cur.text)), "done")
    /\ UNCHANGED <<config, update_queue, delivered, cur, handler, calls,
                   outcome, result, logged>>

\* get_stock_price(stock_code) up to its await: the GET is sent.
get_stock_price ==
    /\ pc = "call"
    /\ handler = "stock_command"
    /\ calls' = Append(calls, [endpoint |-> "quote", arg |-> StockCode(cur.text)])
    /\ pc' = "await"
    /\ UNCHANGED <<config, update_queue, delivered, cur, handler,
                   body_ran, outbox, status_msg, outcome, result, error, logged>>

\* call_nebula_api without the test of the key: the POST is always sent.
call_nebula_api_NoKeyCheck ==
    /\ pc = "call"
    /\ handler = "handle_message"
    /\ calls' = Append(calls, [endpoint |-> "completion", arg |-> TextStr(cur.text)])
    /\ pc' = "await"
    /\ UNCHANGED <<config, update_queue, delivered, cur, handler,
                   body_ran, outbox, status_msg, outcome, result, error, logged>>

\* call_nebula_api(message_text) up to its await: without a key it returns the
\* advisory at once, with one the POST is sent.
call_nebula_api ==
    /\ pc = "call"
    /\ handler = "handle_message"
    /\ IF NEBULA_API_KEY = ""
       THEN /\ result' = ADVISORY
            /\ pc' = "edit"
            /\ UNCHANGED calls
       ELSE /\ calls' = Append(calls, [endpoint |-> "completion",
                                       arg |-> TextStr(cur.text)])
            /\ pc' = "await"
            /\ UNCHANGED result
    /\ UNCHANGED <<config, update_queue, delivered, cur, handler,
                   body_ran, outbox, status_msg, outcome, error, logged>>

(***************************************************************************)
(* What the two endpoints may answer.                                      *)
(***************************************************************************)
Absent == [t |-> "absent"]

\* The JSON object of the fields of f that are present.
Obj(f) == JObj([k \in {x \in DOMAIN f : f[x] # Absent} |-> f[k]])

ErrorStatuses == {404, 500}
TransportErrors == {Exc("ConnectError: connection failed")}
TIMEOUT == Exc("ReadTimeout: timed out")

Contents == {Absent, JNull, JStr("Hello from the model")}
Message(content) == Obj([content |-> content])
Choice(message) == Obj([message |-> message])
CompletionBodies ==
    { BadJson, EmptyDict,
      Obj([choices |-> JNull]),
      Obj([choices |-> JList(<<>>)]),
      Obj([choices |-> JList(<<EmptyDict>>)]) }
    \cup { Obj([choices |-> JList(<<Choice(Message(c))>>)]) : c \in Contents }

Prices == {Absent, JNull, JNum(0), JNum(590), JNum(600)}
Meta(price, prev_close, named) ==
    Obj([regularMarketPrice |-> price,
         previousClose |-> prev_close,
         symbol |-> IF named THEN JStr("TSMC") ELSE Absent,
         currency |-> IF named THEN JStr("USD") ELSE Absent])
Chart(results) == Obj([chart |-> Obj([result |-> results])])
QuoteBodies ==
    { BadJson, EmptyDict, Chart(JNull), Chart(JList(<<>>)) }
    \cup { Chart(JList(<<Obj([meta |-> Meta(p, c, TRUE)])>>)) :
             p \in Prices, c \in Prices }
    \cup { Chart(JList(<<Obj([meta |-> Meta(p, p, FALSE)])>>)) :
             p \in {Absent, JNum(600)} }

Outcomes(endpoint) ==
    TransportErrors
    \cup { Resp(st, BadJson) : st \in ErrorStatuses }
    \cup { Resp(200, b) : b \in IF endpoint = "quote" THEN QuoteBodies
                                 ELSE CompletionBodies }

\* What the caller awaiting the request returns, given its outcome.
CallerReturn(h, text, o) ==
    IF h = "stock_command" THEN QuoteReturn(StockCode(text), o) ELSE NebulaReturn(o)

(***************************************************************************)
(* The rest of the two handlers that call out.                             *)
(***************************************************************************)
\* The endpoint answers, or the request fails: the caller returns.
Respond ==
    /\ pc = "await"
    /\ \E o \in Outcomes(calls[Len(calls)].endpoint) :
          /\ outcome' = o
          /\ result' = CallerReturn(handler, cur.text, o)
    /\ pc' = "edit"
    /\ UNCHANGED <<config, update_queue, delivered, cur, handler,
                   body_ran, outbox, calls, status_msg, error, logged>>

\* The endpoint does not answer.
Hang ==
    /\ pc = "await"
    /\ pc' = "hung"
    /\ UNCHANGED <<config, update_queue, delivered, cur, handler,
                   body_ran, outbox, calls, status_msg, outcome, result, error, logged>>

\* Timeout that sends the request once more before giving up.
Timeout_Retry ==
    /\ pc = "hung"
    /\ IF Len(calls) < 2
       THEN /\ calls' = Append(calls, calls[Len(calls)])
            /\ pc' = "await"
            /\ UNCHANGED <<outcome, result>>
       ELSE /\ outcome' = TIMEOUT
            /\ result' = CallerReturn(handler, cur.text, TIMEOUT)
            /\ pc' = "edit"
            /\ UNCHANGED calls
    /\ UNCHANGED <<config, update_queue, delivered, cur, handler,
                   body_ran, outbox, status_msg, error, logged>>

\* http_client = httpx.AsyncClient(timeout=30.0): the request that got no
\* answer raises a timeout in the caller.
Timeout ==
    /\ pc = "hung"
    /\ outcome' = TIMEOUT
    /\ result' = CallerReturn(handler, cur.text, TIMEOUT)
    /\ pc' = "edit"
    /\ UNCHANGED <<config, update_queue, delivered, cur, handler,
                   body_ran, outbox, calls, status_msg, error, logged>>

\* EditText on update.message, the incoming message, instead of status_msg.
EditText_IncomingMessage ==
    /\ pc = "edit"
    /\ \E ok \in IF result.t = "str" THEN BOOLEAN ELSE {FALSE} :
          /\ outbox' = Append(outbox, [op |-> "edit_text", by |-> handler,
                                       handle |-> <<delivered - Len(update_queue), 0>>,
                                       text |-> result, ok |-> ok])
          /\ pc' = IF ok THEN "done" ELSE "error"
          /\ error' = IF ok THEN error
                      ELSE IF result.t = "str" THEN "NetworkError"
                      ELSE "BadRequest: message text is empty"
    /\ UNCHANGED <<config, update_queue, delivered, cur, handler,
                   body_ran, calls, status_msg, outcome, result, logged>>

\* await status_msg.edit_text(result): the provisional message is edited, or
\* the call raises; a text that is no str is refused by the transport.
EditText ==
    /\ pc = "edit"
    /\ \E ok \in IF result.t = "str" THEN BOOLEAN ELSE {FALSE} :
          /\ outbox' = Append(outbox, [op |-> "edit_text", by |-> handler,
                                       handle |-> status_msg, text |-> result,
                                       ok |-> ok])
          /\ pc' = IF ok THEN "done" ELSE "error"
          /\ error' = IF ok THEN error
                      ELSE IF result.t = "str" THEN "NetworkError"
                      ELSE "BadRequest: message text is empty"
    /\ UNCHANGED <<config, update_queue, delivered, cur, handler,
                   body_ran, calls, status_msg, outcome, result, logged>>

\* error_handler of the full variant that only logs.
error_handler_LogOnly ==
    /\ pc = "error"
    /\ logged' = logged + 1
    /\ pc' = "done"
    /\ UNCHANGED <<config, update_queue, delivered, cur, handler, outbox,
                   body_ran, calls, status_msg, outcome, result, error>>

\* error_handler, called by the library with the exception a handler raised.
\* The full variant logs and answers the update's message; the simple one only
\* logs.  An exception of error_handler itself is logged by the library.
error_handler ==
    /\ pc = "error"
    /\ logged' = logged + 1
    /\ pc' = "done"
    /\ IF variant = "full"
       THEN \E ok \in BOOLEAN :
               outbox' = Append(outbox, [op |-> "reply_text", by |-> "error_handler",
                                         handle |-> NextHandle, text |-> Apology(error),
                                         ok |-> ok])
       ELSE UNCHANGED outbox
    /\ UNCHANGED <<config, update_queue, delivered, cur, handler,
                   body_ran, calls, status_msg, outcome, result, error>>

Next ==
    \/ Deliver
    \/ Dispatch
    \/ start_command
    \/ help_command
    \/ ping_command
    \/ portfolio_command
    \/ report_command
    \/ stock_command
    \/ handle_message
    \/ get_stock_price
    \/ call_nebula_api
    \/ Respond
    \/ Hang
    \/ Timeout
    \/ EditText
    \/ error_handler

Spec == Init /\ [][Next]_vars

\* The event loop runs every step that is ready, and the client's timeout ends
\* every request: it is answered, fails, or times out.  The transport owes
\* no update.
Fairness ==
    /\ WF_vars(Dispatch)
    /\ WF_vars(start_command \/ help_command \/ ping_command \/ portfolio_command
               \/ report_command \/ stock_command \/ handle_message)
    /\ WF_vars(get_stock_price \/ call_nebula_api)
    /\ WF_vars(Respond \/ Hang)
    /\ WF_vars(Timeout)
    /\ WF_vars(EditText)
    /\ WF_vars(error_handler)

FairSpec == Spec /\ Fairness

(***************************************************************************)
(* Properties.                                                             *)
(***************************************************************************)
\* The transport calls a handler made, and those error_handler made.
ByHandler == SelectSeq(outbox, LAMBDA m : m.by # "error_handler")
ByErrorHandler == SelectSeq(outbox, LAMBDA m : m.by = "error_handler")
Handling == pc \notin {"idle", "run"}
Finished == pc = "done" /\ cur # NoUpdate
Authorized == cur.sender = CHAT_ID
Outsider == CHAT_ID # "" /\ cur.sender # CHAT_ID
FullVariant == variant = "full"

\* C1: an update from a sender other than the configured identity, whatever
\* command or free text it carries, is answered by its handler with exactly
\* one reply, the denial text; the handler's body does not run and no request
\* goes to the completion or the quote endpoint.
C1_DeniedEverywhere ==
    (Handling /\ handler # "none" /\ Outsider)
        => /\ Len(ByHandler) = 1
           /\ ByHandler[1].op = "reply_text"
           /\ ByHandler[1].text = DENIAL(variant)
           /\ ~body_ran
           /\ calls = <<>>

\* C2, as stated: every text that is not a registered command, "hello" and
\* "/unknown" alike, goes to the free-text handler.
Registered(v, text) ==
    IsCommand(text) /\ \E i \in 1..Len(Commands(v)) : Lower(text[1].word) = Commands(v)[i]

C2_UnknownCommandIsFreeText ==
    (cur # NoUpdate /\ ~Registered(variant, cur.text)) => handler = "handle_message"

\* C2, amended: routing depends on the text alone.  A text that does not
\* start with the command prefix goes to the free-text handler, and for the
\* authorized sender of the full variant the handling that ends without an
\* exception has gone through the Completion Caller.  A text whose first
\* token has the prefix but names no registered command is taken by no
\* handler: nothing runs, nothing is sent, no request is made.
C2_Routing ==
    cur # NoUpdate =>
        /\ ~IsCommand(cur.text) => handler = "handle_message"
        /\ (IsCommand(cur.text) /\ ~Registered(variant, cur.text))
              => /\ handler = "none"
                 /\ pc = "done"
                 /\ ~body_ran
                 /\ outbox = <<>>
                 /\ calls = <<>>
        /\ Registered(variant, cur.text) => handler = Lower(cur.text[1].word) \o "_command"
        /\ (FullVariant /\ Authorized /\ handler = "handle_message"
            /\ pc = "done" /\ error = "")
              => result # NoResult

C2_Witness ==
    /\ Finished
    /\ cur.text = <<Cmd("unknown")>>
    /\ handler = "none"
    /\ outbox = <<>>

\* C3: without a completion credential the Completion Caller returns the
\* advisory text as it is, whatever the message, and sends no request; the
\* free-text handler goes on to edit its provisional reply to that advisory,
\* and the edit that is delivered is its last reply.
C3_AdvisoryWithoutCredential ==
    (FullVariant /\ NEBULA_API_KEY = "" /\ handler = "handle_message" /\ body_ran)
        => /\ calls = <<>>
           /\ pc \notin {"await", "hung"}
           /\ result \in {NoResult, ADVISORY}
           /\ pc = "edit" => result = ADVISORY
           /\ \A i \in 1..Len(outbox) :
                 outbox[i].op = "edit_text"
                    => outbox[i].text = ADVISORY /\ outbox[i].handle = status_msg
           /\ (pc = "done" /\ error = "")
                 => /\ Len(outbox) = 2
                    /\ outbox[2] = [op |-> "edit_text", by |-> "handle_message",
                                    handle |-> status_msg, text |-> ADVISORY, ok |-> TRUE]

C3_Witness ==
    /\ Finished
    /\ FullVariant /\ NEBULA_API_KEY = "" /\ handler = "handle_message"
    /\ error = ""
    /\ Len(outbox) = 2 /\ outbox[2].op = "edit_text" /\ outbox[2].text = ADVISORY
    /\ calls = <<>>

\* The strings substituted into a Python str.
Pieces(str) == {str.args[i] : i \in 1..Len(str.args)}
Returned == result # NoResult /\ outcome # NoOutcome

\* C4: whatever a request comes to, the caller that made it returns a str and
\* raises nothing: a status other than 200 gives a str with the status code
\* in it, an exception a str with the exception's message in it, and the
\* handler goes on to edit its reply with what came back, which the
\* transport has no reason to refuse.
C4_CallersAlwaysReturnStr ==
    Returned
        => /\ result.t = "str"
           /\ (outcome.kind = "resp" /\ outcome.status # 200)
                 => ToString(outcome.status) \in Pieces(result)
           /\ outcome.kind = "exc" => outcome.msg \in Pieces(result)
           /\ error # "BadRequest: message text is empty"

\* The shape of a completion body.
HasKey(d, k) == d.t = "obj" /\ k \in DOMAIN d.f
FirstChoice(body) == body.f["choices"].l[1]
HasFirstChoice(body) ==
    /\ HasKey(body, "choices")
    /\ body.f["choices"].t = "list"
    /\ Len(body.f["choices"].l) > 0
    /\ FirstChoice(body).t = "obj"
ChoicesMissing(body) == body.t = "obj" /\ ~HasKey(body, "choices")
ChoicesEmpty(body) == HasKey(body, "choices") /\ body.f["choices"] = JList(<<>>)
MessageMissing(body) == HasFirstChoice(body) /\ ~HasKey(FirstChoice(body), "message")
HasMessage(body) ==
    /\ HasFirstChoice(body)
    /\ HasKey(FirstChoice(body), "message")
    /\ FirstChoice(body).f["message"].t = "obj"
ContentMissing(body) ==
    HasMessage(body) /\ ~HasKey(FirstChoice(body).f["message"], "content")
HasContent(body) ==
    HasMessage(body) /\ HasKey(FirstChoice(body).f["message"], "content")

\* C5: on a 200 from the completion endpoint the caller returns the first
\* choice's message content when there is one, and the fixed default text
\* when choices is missing, choices is an empty list, the first choice has
\* no message, or the message has no content.
C5_ContentOrDefault ==
    (Returned /\ handler = "handle_message"
     /\ outcome.kind = "resp" /\ outcome.status = 200)
        => LET body == outcome.body
           IN  /\ HasContent(body)
                     => result = PyOf(FirstChoice(body).f["message"].f["content"])
               /\ (\/ ChoicesMissing(body)
                   \/ ChoicesEmpty(body)
                   \/ MessageMissing(body)
                   \/ ContentMissing(body))
                     => result = Lit(NO_CONTENT)

\* The meta object of a quote body that has one, and a field of it.
HasMeta(body) ==
    /\ HasKey(body, "chart")
    /\ HasKey(body.f["chart"], "result")
    /\ body.f["chart"].f["result"].t = "list"
    /\ Len(body.f["chart"].f["result"].l) > 0
    /\ HasKey(body.f["chart"].f["result"].l[1], "meta")
MetaOf(body) == body.f["chart"].f["result"].l[1].f["meta"]
Field(meta, k) == IF HasKey(meta, k) THEN meta.f[k] ELSE Absent
NumberOrAbsent(v) == v = Absent \/ v.t = "num"
IsQuoteBlock(str) == str.t = "str" /\ Len(str.args) = 9

\* C6: the quote caller computes on price and previous close only after
\* checking that both are there.  For a payload whose two fields are each a
\* number or absent it renders the quote block, never the text of an
\* exception: with a field absent the change and the percent change are zero
\* and the absent field reads "N/A"; with both there the change is price
\* minus previous close, and the percent change is change / previous close
\* * 100 when the previous close is not zero and zero when it is (600 over
\* 590 reads +10.00 and +1.69%).  No payload makes it divide by zero.
C6_PresenceCheckedArithmetic ==
    (Returned /\ handler = "stock_command")
        => /\ "division by zero" \notin Pieces(result)
           /\ (outcome.kind = "resp" /\ outcome.status = 200 /\ HasMeta(outcome.body))
                 => LET price == Field(MetaOf(outcome.body), "regularMarketPrice")
                        prev == Field(MetaOf(outcome.body), "previousClose")
                    IN  (NumberOrAbsent(price) /\ NumberOrAbsent(prev))
                           => /\ IsQuoteBlock(result)
                              /\ result.args[2] = IF price = Absent THEN "N/A"
                                                  ELSE ToString(price.n)
                              /\ result.args[4] = IF prev = Absent THEN "N/A"
                                                  ELSE ToString(prev.n)
                              /\ (price = Absent \/ prev = Absent)
                                    => /\ result.args[7] = "+0.00"
                                       /\ result.args[8] = "+0.00"
                                       /\ result.args[6] = "white"
                              /\ (price # Absent /\ prev # Absent)
                                    => /\ result.args[7]
                                            = SignedFixed2(price.n - prev.n, 1)
                                       /\ result.args[8]
                                            = IF prev.n = 0 THEN "+0.00"
                                              ELSE SignedFixed2((price.n - prev.n) * 100,
                                                                prev.n)
                              /\ (price = JNum(600) /\ prev = JNum(590))
                                    => /\ result.args[7] = "+10.00"
                                       /\ result.args[8] = "+1.69"
                                       /\ result.args[6] = "green"

C6_Witness ==
    /\ Finished /\ handler = "stock_command" /\ error = ""
    /\ outcome.kind = "resp" /\ outcome.status = 200 /\ HasMeta(outcome.body)
    /\ Field(MetaOf(outcome.body), "regularMarketPrice") = Absent
    /\ Field(MetaOf(outcome.body), "previousClose") = JNum(590)
    /\ Len(outbox) = 2 /\ outbox[2].op = "edit_text"
    /\ outbox[2].text.args[2] = "N/A" /\ outbox[2].text.args[8] = "+0.00"

\* C7: in the full variant, for the authorized sender, stock_command with
\* no argument sends one text, the usage message, sets no provisional reply
\* and sends no request to the quote endpoint (so, unless the transport
\* fails, the usage message is the one reply of the update); with arguments
\* it looks up the first one, upper-cased, and nothing else.
C7_StockArguments ==
    (FullVariant /\ Authorized /\ handler = "stock_command" /\ Handling)
        => /\ body_ran
           /\ Len(cur.text) = 1
                 => /\ calls = <<>>
                    /\ status_msg = NoHandle
                    /\ pc \in {"done", "error"}
                    /\ Len(ByHandler) = 1
                    /\ ByHandler[1].op = "reply_text"
                    /\ ByHandler[1].text = USAGE
                    /\ error = "" => outbox = ByHandler
           /\ Len(cur.text) > 1
                 => /\ Len(calls) <= 1
                    /\ \A i \in 1..Len(calls) :
                          /\ calls[i].endpoint = "quote"
                          /\ calls[i].arg = Upper(cur.text[2].word)
                    /\ ByHandler[1].text = Searching(Upper(cur.text[2].word))
                    /\ pc \in {"done", "edit"} /\ error = "" => Len(calls) = 1
           /\ cur.text = <<Cmd("STOCK"), Word("aapl"), Word("2330.tw")>>
                 => \A i \in 1..Len(calls) : calls[i].arg = "AAPL"

C7_Witness ==
    /\ Finished /\ FullVariant /\ Authorized /\ error = ""
    /\ cur.text = <<Cmd("STOCK"), Word("aapl"), Word("2330.tw")>>
    /\ calls = <<[endpoint |-> "quote", arg |-> "AAPL"]>>
    /\ Len(outbox) = 2

\* C8, as stated: an exception raised in a handler is logged by the error
\* handler, which then answers the update's message with an apology.
C8_ApologyAlways ==
    (Finished /\ error # "")
        => /\ logged = 1
           /\ Len(ByErrorHandler) = 1
           /\ ByErrorHandler[1].text = Apology(error)

\* C8, amended: an exception raised in a handler (a handler raises only when
\* sending or editing a reply fails) is given to the error handler, which
\* logs it once.  The full variant's then sends one reply with the error's
\* text to the update's message, the last call made for the update; the
\* simple variant's sends nothing.  Whether or not that reply is delivered
\* the handling ends, and the next queued update can be taken: nothing stops
\* the loop.  Without an exception the error handler does nothing.
C8_ErrorHandler ==
    /\ pc = "error" => error # "" /\ logged = 0 /\ ENABLED error_handler
    /\ (pc \notin {"error", "done"} \/ error = "")
          => logged = 0 /\ ByErrorHandler = <<>>
    /\ (Finished /\ error # "")
          => /\ logged = 1
             /\ Len(ByHandler) >= 1 /\ ~ByHandler[Len(ByHandler)].ok
             /\ FullVariant
                   => /\ Len(ByErrorHandler) = 1
                      /\ outbox[Len(outbox)]
                            = [op |-> "reply_text", by |-> "error_handler",
                               handle |-> <<delivered - Len(update_queue), Len(outbox)>>,
                               text |-> Apology(error),
                               ok |-> outbox[Len(outbox)].ok]
             /\ ~FullVariant => ByErrorHandler = <<>>
    /\ (pc = "done" /\ Len(update_queue) > 0) => ENABLED Dispatch

C8_Witness ==
    /\ Finished /\ FullVariant /\ error = "NetworkError" /\ logged = 1
    /\ Len(outbox) = 3
    /\ outbox[2].op = "edit_text" /\ ~outbox[2].ok
    /\ outbox[3].by = "error_handler" /\ outbox[3].ok

\* The updates whose handler sends a provisional reply and calls out.
TwoStep ==
    /\ FullVariant /\ Authorized /\ Handling
    /\ \/ handler = "handle_message"
       \/ handler = "stock_command" /\ Len(cur.text) > 1
Provisional ==
    IF handler = "stock_command" THEN Searching(Upper(cur.text[2].word)) ELSE THINKING
Edits == SelectSeq(outbox, LAMBDA m : m.op = "edit_text")

\* C9, as stated: the handling of an authorized /stock with an argument or
\* of a free text that ends without an exception has sent the provisional
\* reply, then made exactly one request, then edited that reply once to what
\* the request's caller returned.
C9_ExactlyOneRequest ==
    (TwoStep /\ pc = "done" /\ error = "")
        => /\ Len(outbox) = 2
           /\ outbox[1].op = "reply_text" /\ outbox[1].text = Provisional
           /\ Len(calls) = 1
           /\ outbox[2].op = "edit_text"
           /\ outbox[2].handle = outbox[1].handle
           /\ outbox[2].text = result

\* C9, amended: such a handling first sends the provisional reply and keeps
\* its handle, then makes one request (none for a free text when no
\* completion credential is configured: the caller returns the advisory),
\* then edits once the message of that handle to what the caller returned.
\* No request and no edit comes before the provisional reply is delivered,
\* no edit before the caller has returned; the message edited is the one
\* created for this very update, and the text is this update's result.
C9_TwoStepReply ==
    TwoStep
        => LET requests == IF handler = "handle_message" /\ NEBULA_API_KEY = ""
                           THEN 0 ELSE 1
           IN  /\ outbox[1].op = "reply_text" /\ outbox[1].text = Provisional
               /\ Len(calls) <= requests
               /\ Len(Edits) <= 1
               /\ (calls # <<>> \/ result # NoResult \/ Edits # <<>>)
                     => /\ outbox[1].ok
                        /\ status_msg = outbox[1].handle
                        /\ status_msg = <<delivered - Len(update_queue), 1>>
               /\ result # NoResult
                     => /\ Len(calls) = requests
                        /\ result = IF requests = 0 THEN ADVISORY
                                    ELSE CallerReturn(handler, cur.text, outcome)
               /\ \A i \in 1..Len(outbox) :
                     outbox[i].op = "edit_text"
                        => /\ i = 2
                           /\ result # NoResult
                           /\ outbox[i].handle = outbox[1].handle
                           /\ outbox[i].text = result
                           /\ outbox[i].by = handler
               /\ (pc = "done" /\ error = "")
                     => /\ Len(outbox) = 2
                        /\ Len(calls) = requests
                        /\ outbox[2].op = "edit_text" /\ outbox[2].ok

C9_Witness ==
    /\ TwoStep /\ pc = "done" /\ error = ""
    /\ handler = "handle_message" /\ NEBULA_API_KEY # ""
    /\ Len(calls) = 1 /\ Len(outbox) = 2
    /\ outbox[2].op = "edit_text" /\ outbox[2].handle = outbox[1].handle
    /\ outbox[2].text = Lit("Hello from the model")
    /\ delivered - Len(update_queue) = 2

\* C10, as stated: a request that hangs blocks only the handling of its own
\* update; an update delivered meanwhile is still dispatched.
C10_OthersStillDispatched ==
    (pc = "hung" /\ Len(update_queue) > 0) => ENABLED Dispatch

TimeoutText ==
    IF handler = "stock_command" THEN PyStr("query failed: {}", <<TIMEOUT.msg>>)
    ELSE PyStr("error occurred: {}", <<TIMEOUT.msg>>)

C10_Safe ==
    /\ pc = "hung" => /\ ~ENABLED Dispatch
                      /\ ENABLED Timeout
                      /\ Len(calls) = 1
                      /\ Edits = <<>>
    /\ outcome = TIMEOUT
          => /\ Len(calls) = 1
             /\ result = TimeoutText
             /\ \A i \in 1..Len(Edits) : Edits[i].text = TimeoutText
             /\ Len(Edits) <= 1

\* C10, amended: updates are handled one at a time, so while a request hangs
\* no update delivered meanwhile is dispatched: each waits in the queue.  The
\* request is not sent again; once the per-request timeout fires its caller
\* returns the error text with the timeout's message, and the handler edits
\* the provisional reply to it.  After that the queued updates are taken.
C10_HungHoldsTheQueue ==
    /\ []C10_Safe
    /\ (pc = "hung") ~> (outcome = TIMEOUT /\ Len(Edits) = 1)
    /\ (Len(update_queue) > 0) ~> (Len(update_queue) = 0)

C10_Witness ==
    /\ pc = "done" /\ error = "" /\ outcome = TIMEOUT
    /\ Len(Edits) = 1 /\ Edits[1].ok /\ Edits[1].text = TimeoutText
    /\ Len(update_queue) > 0

=============================================================================
